---- MODULE Spec2Model ----
(***************************************************************************)
(* A model of camara-abierta:                                              *)
(*   - the affiliation consolidator (mergeSequentialMilitancias and its    *)
(*     helpers in @/types),                                                *)
(*   - the hemicycle seat layout of the ParliamentChart component,         *)
(*   - the request counters and the log buffer of CongressAPIService, and  *)
(*   - the screens that show them: statistics, year search of the votes,   *)
(*     legislator detail and legislators list.                             *)
(* Dates are ISO-8601 strings in the program; here a date string is the    *)
(* record [dia, seg] (calendar day, second of the day) and new Date(s)     *)
(* .getTime() is the conversion DateGetTime to epoch milliseconds.         *)
(***************************************************************************)
EXTENDS Integers, Sequences, FiniteSets, TLC

VARIABLES
    militancias,   \* the Militancias object handed to mergeSequentialMilitancias
    sorted,        \* mergeSequentialMilitancias: the sorted copy
    mIdx,          \* mergeSequentialMilitancias: index of the for-of loop in sorted
    merged,        \* mergeSequentialMilitancias: the merged array
    mpc,           \* mergeSequentialMilitancias: "idle", "loop" or "returned"
    legislators,   \* ParliamentChart: the legislators prop
    now,           \* the wall clock that new Date() reads, in epoch milliseconds
    reads,         \* ParliamentChart: the instant new Date() returned for each legislator
    sortedParties, \* ParliamentChart: the legend, the party groups in display order
    allPositions,  \* ParliamentChart: the pooled positions after the sort
    seats,         \* ParliamentChart: the seats drawn
    cpc,           \* ParliamentChart: "idle", "rendered" or "threw"
    heap,          \* the objects of the JavaScript heap, by address (index)
    inputEnd,      \* the last address of the objects the feed produced
    calls,         \* per screen: its call of mergeSequentialMilitancias
    requestCount,  \* CongressAPIService.requestCount
    failedCount,   \* CongressAPIService.failedCount
    logs,          \* CongressAPIService.logs
    logCalls,      \* the number of log entries created so far
    requests,      \* the _makeRequest calls made, each with its position
    recent,        \* the last call of getRecentLogs: its argument and its result
    statsData,     \* ExploreScreen.loadStats: the value being awaited
    stats,         \* ExploreScreen: the stats state
    loading,       \* ExploreScreen: the loading state
    epc,           \* ExploreScreen: "unmounted", "awaiting" or "shown"
    year,          \* VotesScreen: the year state, the year displayed
    votes,         \* VotesScreen: the votes state, the votes displayed
    votesLoading,  \* VotesScreen: the loading state
    searchYear,    \* VotesScreen: the searchYear state, the text of the input
    fetches,       \* VotesScreen: the loadVotes calls suspended at their await
    submitted,     \* the years the user has submitted, in order
    errors,        \* VotesScreen: the number of console.error calls
    vpc,           \* VotesScreen: "unmounted" or "mounted"
    Diputado,      \* the Diputado record the legislator screens render
    detail,        \* LegislatorDetailScreen: currentParty and the history rendered
    listItem       \* LegislatorsScreen.renderLegislator: the parties indicator

mergeVars == <<militancias, sorted, mIdx, merged, mpc>>
chartVars == <<legislators, now, reads, sortedParties, allPositions, seats, cpc>>
callerVars == <<heap, inputEnd, calls>>
serviceVars == <<requestCount, failedCount, logs, logCalls, requests, recent,
                 statsData, stats, loading, epc>>
votesVars == <<year, votes, votesLoading, searchYear, fetches, submitted, errors, vpc>>
screenVars == <<Diputado, detail, listItem>>
vars == <<mergeVars, chartVars, callerVars, serviceVars, votesVars, screenVars>>

\* The screens that consolidate a legislator's memberships.
Callers == {"detail", "list"}

Null == [null |-> TRUE]

\* The values of the variables of a component that is not running.
MergeIdle ==
    /\ militancias = [isArray |-> TRUE, Militancia |-> <<>>]
    /\ sorted = <<>>
    /\ mIdx = 0
    /\ merged = <<>>
    /\ mpc = "idle"

ChartIdle ==
    /\ legislators = <<>>
    /\ now = 0
    /\ reads = <<>>
    /\ sortedParties = <<>>
    /\ allPositions = <<>>
    /\ seats = <<>>
    /\ cpc = "idle"

CallersIdle ==
    /\ heap = <<>>
    /\ inputEnd = 0
    /\ calls = [c \in Callers |-> [pc |-> "idle", sorted |-> 0, idx |-> 0, merged |-> 0]]

ServiceIdle ==
    /\ requestCount = 0
    /\ failedCount = 0
    /\ logs = <<>>
    /\ logCalls = 0
    /\ requests = <<>>
    /\ recent = Null
    /\ statsData = Null
    /\ stats = Null
    /\ loading = TRUE
    /\ epc = "unmounted"

\* new Date().getFullYear().toString(): a text is its sequence of digits.
ThisYear == <<2, 0, 2, 4>>

VotesIdle ==
    /\ year = ThisYear
    /\ votes = <<>>
    /\ votesLoading = FALSE
    /\ searchYear = ThisYear
    /\ fetches = <<>>
    /\ submitted = <<>>
    /\ errors = 0
    /\ vpc = "unmounted"

ScreensIdle ==
    /\ Diputado = [Militancias |-> [isArray |-> TRUE, Militancia |-> <<>>]]
    /\ detail = Null
    /\ listItem = Null

(***************************************************************************)
(* Bounds of the model.                                                    *)
(***************************************************************************)
MaxMilitancias == 3

(***************************************************************************)
(* Dates.                                                                  *)
(***************************************************************************)
MsPerDay == 86400000

\* new Date(fecha).getTime(): epoch milliseconds of a date string.
DateGetTime(fecha) == (fecha.dia * 86400 + fecha.seg) * 1000

\* The date strings of the feed that the model draws from: midnight of three
\* consecutive days and one second past midnight of the middle one.
Fechas ==
    { [dia |-> 0, seg |-> 0], [dia |-> 1, seg |-> 0],
      [dia |-> 1, seg |-> 1], [dia |-> 2, seg |-> 0] }

(***************************************************************************)
(* The feed's records.                                                     *)
(***************************************************************************)
PartidoPS == [Id |-> "PS", Alias |-> "PS", Nombre |-> "Partido Socialista"]
PartidoRN == [Id |-> "RN", Alias |-> "RN", Nombre |-> "Renovacion Nacional"]

MergePartidos == {PartidoPS, PartidoRN}

\* Militancia records of the feed: FechaInicio <= FechaTermino.
MilitanciaPool ==
    { m \in [Partido : MergePartidos, FechaInicio : Fechas, FechaTermino : Fechas] :
        DateGetTime(m.FechaInicio) <= DateGetTime(m.FechaTermino) }

RECURSIVE SeqsUpTo(_, _)
SeqsUpTo(S, n) ==
    IF n = 0 THEN {<<>>}
    ELSE LET shorter == SeqsUpTo(S, n - 1)
         IN  shorter \cup {Append(s, x) : s \in {t \in shorter : Len(t) = n - 1}, x \in S}

\* Militancias: the field Militancia is one object or an array of them.
MilitanciasInputs ==
    { [isArray |-> TRUE, Militancia |-> s] : s \in SeqsUpTo(MilitanciaPool, MaxMilitancias) }
    \cup { [isArray |-> FALSE, Militancia |-> m] : m \in MilitanciaPool }

(***************************************************************************)
(* @/types: the consolidator.                                              *)
(***************************************************************************)
\* Mutant of normalizeMilitancias: a single Militancia object is dropped.
normalizeMilitancias_arrayOnly(m) ==
    IF m.isArray THEN m.Militancia ELSE <<>>

normalizeMilitancias(m) ==
    IF m.isArray THEN m.Militancia ELSE <<m.Militancia>>

\* Array.prototype.sort with (a, b) => getTime(a.FechaInicio) - getTime(b.FechaInicio):
\* a stable ascending sort. InsertByFechaInicio puts x after every element that
\* does not compare greater than it.
\* Mutant of InsertByFechaInicio: an element goes before the elements it ties
\* with (>= instead of >), which reverses the order of equal start dates.
RECURSIVE InsertByFechaInicio_unstable(_, _)
InsertByFechaInicio_unstable(s, x) ==
    IF s = <<>> THEN <<x>>
    ELSE IF DateGetTime(s[Len(s)].FechaInicio) - DateGetTime(x.FechaInicio) >= 0
         THEN Append(InsertByFechaInicio_unstable(SubSeq(s, 1, Len(s) - 1), x), s[Len(s)])
         ELSE Append(s, x)

RECURSIVE InsertByFechaInicio(_, _)
InsertByFechaInicio(s, x) ==
    IF s = <<>> THEN <<x>>
    ELSE IF DateGetTime(s[Len(s)].FechaInicio) - DateGetTime(x.FechaInicio) > 0
         THEN Append(InsertByFechaInicio(SubSeq(s, 1, Len(s) - 1), x), s[Len(s)])
         ELSE Append(s, x)

RECURSIVE SortByFechaInicio(_)
SortByFechaInicio(s) ==
    IF s = <<>> THEN <<>>
    ELSE InsertByFechaInicio(SortByFechaInicio(SubSeq(s, 1, Len(s) - 1)), s[Len(s)])

\* Mutant of arePeriodsSequential: the one-day boundary excluded (< instead of <=).
arePeriodsSequential_strict(endDate, startDate) ==
    LET diffInMs == DateGetTime(startDate) - DateGetTime(endDate)
    IN  diffInMs >= 0 /\ diffInMs < 1 * MsPerDay

\* Mutant of arePeriodsSequential: the lower bound dropped, so overlaps merge.
arePeriodsSequential_overlap(endDate, startDate) ==
    LET diffInMs == DateGetTime(startDate) - DateGetTime(endDate)
    IN  diffInMs <= 1 * MsPerDay

\* diffInDays = diffInMs / (1000 * 60 * 60 * 24); diffInDays >= 0 && diffInDays <= 1.
arePeriodsSequential(endDate, startDate) ==
    LET diffInMs == DateGetTime(startDate) - DateGetTime(endDate)
    IN  diffInMs >= 0 /\ diffInMs <= 1 * MsPerDay

\* The condition of the if in the for-of loop.
CanMerge(acc, militancia) ==
    /\ acc # <<>>
    /\ acc[Len(acc)].Partido.Id = militancia.Partido.Id
    /\ arePeriodsSequential(acc[Len(acc)].FechaTermino, militancia.FechaInicio)

\* Mutant of ExtendLast: the end date of the merged entry is not moved.
ExtendLast_keepEnd(acc, militancia) ==
    LET lastMerged == acc[Len(acc)]
    IN  [acc EXCEPT ![Len(acc)] =
            [lastMerged EXCEPT
                !.periodCount = lastMerged.periodCount + 1,
                !.originalMilitancias = Append(lastMerged.originalMilitancias, militancia)]]

\* The then-branch: extend the last merged entry.
ExtendLast(acc, militancia) ==
    LET lastMerged == acc[Len(acc)]
    IN  [acc EXCEPT ![Len(acc)] =
            [lastMerged EXCEPT
                !.FechaTermino = militancia.FechaTermino,
                !.periodCount = lastMerged.periodCount + 1,
                !.originalMilitancias = Append(lastMerged.originalMilitancias, militancia)]]

\* The else-branch: push a new merged entry.
PushNew(acc, militancia) ==
    Append(acc, [Partido |-> militancia.Partido,
                 FechaInicio |-> militancia.FechaInicio,
                 FechaTermino |-> militancia.FechaTermino,
                 periodCount |-> 1,
                 originalMilitancias |-> <<militancia>>])

\* One iteration of the for-of loop.
MergeOne(acc, militancia) ==
    IF CanMerge(acc, militancia) THEN ExtendLast(acc, militancia)
    ELSE PushNew(acc, militancia)

(***************************************************************************)
(* @/types: getCurrentMilitancia.  t is the instant new Date() returns.    *)
(***************************************************************************)
\* Mutant of FindCurrentFrom: the interval is taken as open (> and < instead
\* of >= and <=).
RECURSIVE FindCurrentFrom_open(_, _, _)
FindCurrentFrom_open(ms, i, t) ==
    IF i > Len(ms) THEN 0
    ELSE IF t > DateGetTime(ms[i].FechaInicio) /\ t < DateGetTime(ms[i].FechaTermino)
         THEN i
         ELSE FindCurrentFrom_open(ms, i + 1, t)

\* Array.prototype.find: the index of the first element that satisfies the
\* callback, 0 when there is none.
RECURSIVE FindCurrentFrom(_, _, _)
FindCurrentFrom(ms, i, t) ==
    IF i > Len(ms) THEN 0
    ELSE IF t >= DateGetTime(ms[i].FechaInicio) /\ t <= DateGetTime(ms[i].FechaTermino)
         THEN i
         ELSE FindCurrentFrom(ms, i + 1, t)

getCurrentMilitancia(diputado, t) ==
    LET ms == normalizeMilitancias(diputado.Militancias)
        i == FindCurrentFrom(ms, 1, t)
    IN  IF i = 0 THEN Null ELSE ms[i]

(***************************************************************************)
(* components/parliament-chart.tsx: the lookup tables.                     *)
(***************************************************************************)
PARTY_COLORS ==
    [ PNL |-> "#00008B", PREP |-> "#0066CC", UDI |-> "#1E90FF", RN |-> "#0080FF",
      EVOP |-> "#4169E1", DEM |-> "#87CEEB", DC |-> "#FFA500", AMA |-> "#FFFF00",
      PSC |-> "#FF8C00", PPD |-> "#FF6347", PS |-> "#DC143C", PR |-> "#FF4500",
      LIBERAL |-> "#C71585", PAH |-> "#FF69B4", PH |-> "#FF1493", PC |-> "#B22222",
      FA |-> "#9932CC", CS |-> "#8B008B", PEV |-> "#4B0082", FRVS |-> "#228B22",
      IND |-> "#808080", DEFAULT |-> "#A9A9A9" ]

PARTY_ALIGNMENT ==
    [ PC |-> "left", FA |-> "left", CS |-> "left", PEV |-> "left",
      PS |-> "left", PPD |-> "left", PR |-> "left", LIBERAL |-> "left",
      PAH |-> "left", PH |-> "left", PSC |-> "center",
      DC |-> "center", AMA |-> "center", DEM |-> "center",
      EVOP |-> "right", RN |-> "right", UDI |-> "right", PREP |-> "right",
      PNL |-> "right", FRVS |-> "center", IND |-> "center" ]

\* Mutant of ColorOf: no default for a party that is not in the table.
ColorOf_noDefault(partyId) ==
    IF partyId \in DOMAIN PARTY_COLORS THEN PARTY_COLORS[partyId] ELSE "undefined"

\* PARTY_COLORS[partyId] || PARTY_COLORS.DEFAULT
ColorOf(partyId) ==
    IF partyId \in DOMAIN PARTY_COLORS THEN PARTY_COLORS[partyId] ELSE PARTY_COLORS.DEFAULT

\* Mutant of AlignmentOf: no default for a party that is not in the table.
AlignmentOf_noDefault(partyId) ==
    IF partyId \in DOMAIN PARTY_ALIGNMENT THEN PARTY_ALIGNMENT[partyId] ELSE "undefined"

\* PARTY_ALIGNMENT[partyId] || "center"
AlignmentOf(partyId) ==
    IF partyId \in DOMAIN PARTY_ALIGNMENT THEN PARTY_ALIGNMENT[partyId] ELSE "center"

(***************************************************************************)
(* ParliamentChart: grouping.  partyGroups is an object keyed by alias;    *)
(* Object.entries lists its keys in insertion order, so the model keeps    *)
(* the groups as a sequence in insertion order.                            *)
(***************************************************************************)
RECURSIVE IndexOfAlias(_, _, _)
IndexOfAlias(acc, i, alias) ==
    IF i > Len(acc) THEN 0
    ELSE IF acc[i].partyAlias = alias THEN i
    ELSE IndexOfAlias(acc, i + 1, alias)

\* currentParty?.Partido.Alias || "IND"
PartyIdOf(currentParty) ==
    IF currentParty = Null THEN "IND"
    ELSE IF currentParty.Partido.Alias = "" THEN "IND"
    ELSE currentParty.Partido.Alias

\* currentParty?.Partido.Nombre || "Independiente"
PartyNameOf(currentParty) ==
    IF currentParty = Null THEN "Independiente"
    ELSE IF currentParty.Partido.Nombre = "" THEN "Independiente"
    ELSE currentParty.Partido.Nombre

\* The callback of legislators.reduce; t is the instant its new Date() reads.
GroupLegislator(acc, leg, t) ==
    LET currentParty == getCurrentMilitancia(leg.Diputado, t)
        partyId == PartyIdOf(currentParty)
        i == IndexOfAlias(acc, 1, partyId)
    IN  IF i = 0
        THEN Append(acc, [partyName |-> PartyNameOf(currentParty),
                          partyAlias |-> partyId,
                          count |-> 1,
                          color |-> ColorOf(partyId),
                          alignment |-> AlignmentOf(partyId)])
        ELSE [acc EXCEPT ![i].count = acc[i].count + 1]

\* The reduce over legislators lo .. hi, from the accumulator acc; clock[i] is
\* the instant read for legislators[i].  The range is folded in two halves, the
\* left one first (the test of Len only fixes the order of evaluation).
RECURSIVE ReduceLegislators(_, _, _, _, _)
ReduceLegislators(acc, legs, clock, lo, hi) ==
    IF lo > hi THEN acc
    ELSE IF lo = hi THEN GroupLegislator(acc, legs[lo], clock[lo])
    ELSE LET mid == (lo + hi) \div 2
             left == ReduceLegislators(acc, legs, clock, lo, mid)
         IN  IF Len(left) >= 0
             THEN ReduceLegislators(left, legs, clock, mid + 1, hi)
             ELSE left

\* legislators.reduce(..., {})
PartyGroups(legs, clock) == ReduceLegislators(<<>>, legs, clock, 1, Len(legs))

(***************************************************************************)
(* ParliamentChart: party order.                                           *)
(***************************************************************************)
\* Object.entries(partyGroups).filter(([, party]) => party.alignment === alignment)
FilterAlignment(groups, alignment) ==
    SelectSeq(groups, LAMBDA party : party.alignment = alignment)

\* sort(([, a], [, b]) => b.count - a.count): stable, descending by count.
RECURSIVE InsertByCountDesc(_, _)
InsertByCountDesc(s, x) ==
    IF s = <<>> THEN <<x>>
    ELSE IF x.count - s[Len(s)].count > 0
         THEN Append(InsertByCountDesc(SubSeq(s, 1, Len(s) - 1), x), s[Len(s)])
         ELSE Append(s, x)

RECURSIVE SortByCountDesc(_)
SortByCountDesc(s) ==
    IF s = <<>> THEN <<>>
    ELSE InsertByCountDesc(SortByCountDesc(SubSeq(s, 1, Len(s) - 1)), s[Len(s)])

Reverse(s) == [i \in 1..Len(s) |-> s[Len(s) + 1 - i]]

leftParties(groups) == SortByCountDesc(FilterAlignment(groups, "left"))
centerParties(groups) == SortByCountDesc(FilterAlignment(groups, "center"))
rightParties(groups) == SortByCountDesc(FilterAlignment(groups, "right"))

\* Mutant of SortedParties: the right parties are not reversed.
SortedParties_noReverse(groups) ==
    leftParties(groups) \o centerParties(groups) \o rightParties(groups)

\* [...leftParties, ...centerParties, ...rightParties.reverse()]
SortedParties(groups) ==
    leftParties(groups) \o centerParties(groups) \o Reverse(rightParties(groups))

(***************************************************************************)
(* ParliamentChart: rows and positions.                                    *)
(***************************************************************************)
rows == 5
baseSeatsPerRow == 20
rowIncrement == 8

\* Array.from({length: rows}, (_, i) => Math.round(baseSeatsPerRow + i * 8)),
\* indexed from 1 here: entry r is the code's row r - 1.
NominalSeatsPerRow == [r \in 1..rows |-> baseSeatsPerRow + (r - 1) * rowIncrement]

RECURSIVE SumSeq(_, _)
SumSeq(s, n) == IF n = 0 THEN 0 ELSE SumSeq(s, n - 1) + s[n]

\* seatsPerRowArray after the adjustment of the outermost row.
SeatsPerRowArray(totalSeats) ==
    LET totalCalculated == SumSeq(NominalSeatsPerRow, rows)
        adjustment == totalSeats - totalCalculated
    IN  [NominalSeatsPerRow EXCEPT ![rows] = NominalSeatsPerRow[rows] + adjustment]

\* angle = Math.PI * (1 - seat / (seatsInRow - 1)), kept as the fraction
\* seat / (seatsInRow - 1): [num, den] stands for pi * (1 - num / den), and
\* den = 0 (only with num = 0: the division 0 / 0) stands for NaN.
Angle(seat, seatsInRow) == [num |-> seat, den |-> seatsInRow - 1]

IsNaN(angle) == angle.den = 0

\* A position {x, y, angle}: x = size/2 + radius * cos(angle) and
\* y = size/2 - radius * sin(angle), with radius fixed by the row, are kept as
\* the pair (row, angle) that determines them; they are NaN exactly when the
\* angle is.
Position(row, seat, seatsInRow) == [row |-> row, angle |-> Angle(seat, seatsInRow)]

\* Mutant of RowPositions: the loop stops one seat short (seat < seatsInRow - 1).
RowPositions_short(row, seatsInRow) ==
    IF seatsInRow - 1 <= 0 THEN <<>>
    ELSE [j \in 1..(seatsInRow - 1) |-> Position(row, j - 1, seatsInRow)]

\* The inner for loop: the positions of one row, seat 0 first.
RowPositions(row, seatsInRow) ==
    IF seatsInRow <= 0 THEN <<>>
    ELSE [j \in 1..seatsInRow |-> Position(row, j - 1, seatsInRow)]

\* The outer for loop: the positions of rows 0 .. upTo - 1, pooled in push order.
RECURSIVE PooledPositions(_, _)
PooledPositions(seatsPerRowArray, upTo) ==
    IF upTo = 0 THEN <<>>
    ELSE PooledPositions(seatsPerRowArray, upTo - 1)
            \o RowPositions(upTo - 1, seatsPerRowArray[upTo])

\* The comparator (a, b) => b.angle - a.angle as its sign, for two numbers:
\* b.angle - a.angle > 0 iff a.num / a.den > b.num / b.den.
AngleGreater(b, a) == a.num * b.den > b.num * a.den

\* The number of elements of the run b (sorted by descending angle) whose
\* angle is greater than `angle`: b[1 .. lo] are greater, b[hi + 1 ..] are not.
RECURSIVE CountGreater(_, _, _, _)
CountGreater(b, angle, lo, hi) ==
    IF lo >= hi THEN lo
    ELSE LET m == (lo + hi + 1) \div 2
         IN  IF AngleGreater(b[m].angle, angle)
             THEN CountGreater(b, angle, m, hi)
             ELSE CountGreater(b, angle, lo, m - 1)

\* Merge of two runs sorted by descending angle; on a tie the element of the
\* left run a goes first.  The middle element of a splits both runs: the
\* elements of b with a greater angle go before it, the others after it.
RECURSIVE MergeDesc(_, _)
MergeDesc(a, b) ==
    IF a = <<>> THEN b
    ELSE IF b = <<>> THEN a
    ELSE LET mid == (Len(a) + 1) \div 2
             k == CountGreater(b, a[mid].angle, 0, Len(b))
         IN  MergeDesc(SubSeq(a, 1, mid - 1), SubSeq(b, 1, k))
                \o <<a[mid]>>
                \o MergeDesc(SubSeq(a, mid + 1, Len(a)), SubSeq(b, k + 1, Len(b)))

\* The length of the longest prefix of s that is already in order: it ends
\* before the first element that has a greater angle than its predecessor.
FirstRun(s) ==
    LET breaks == {i \in 1..(Len(s) - 1) : AngleGreater(s[i + 1].angle, s[i].angle)}
    IN  IF breaks = {} THEN Len(s)
        ELSE CHOOSE i \in breaks : \A j \in breaks : i <= j

\* allPositions.sort((a, b) => b.angle - a.angle) on numbers: the stable sort
\* by descending angle (a merge sort over the runs that are already in order).
RECURSIVE SortByAngleDesc(_)
SortByAngleDesc(s) ==
    LET h == FirstRun(s)
    IN  IF h = Len(s) THEN s
        ELSE MergeDesc(SubSeq(s, 1, h), SortByAngleDesc(SubSeq(s, h + 1, Len(s))))

FilterNaN(s, wanted) == SelectSeq(s, LAMBDA p : IsNaN(p.angle) = wanted)

InsertAt(s, i, x) == SubSeq(s, 1, i - 1) \o <<x>> \o SubSeq(s, i, Len(s))

\* Where a position with a NaN angle may land among n sorted others: first,
\* in the middle, or last (where it was pushed).
NaNLandings(n) == {1, (n + 2) \div 2, n + 1}

\* The outcomes of allPositions.sort.  A comparison with a NaN angle yields
\* NaN, which sort takes as "equal"; the comparator is then not consistent
\* and the order is implementation-defined.  At most one position has a NaN
\* angle (a row of one seat); the model lets it land at one of NaNLandings
\* among the other positions, which it keeps in sorted order.
SortOutcomes(positions) ==
    LET numbers == SortByAngleDesc(FilterNaN(positions, FALSE))
        nans == FilterNaN(positions, TRUE)
    IN  IF nans = <<>> THEN {numbers}
        ELSE {InsertAt(numbers, i, nans[1]) : i \in NaNLandings(Len(numbers))}

(***************************************************************************)
(* ParliamentChart: seat assignment.  The loop state is the record         *)
(* [seats, currentPartyIndex, currentPartySeats, threw]; currentPartyData  *)
(* is sortedParties[currentPartyIndex + 1] while the index is in range,    *)
(* and stays the last party's once the index has run past the end.         *)
(***************************************************************************)
CurrentPartyData(parties, currentPartyIndex) ==
    IF currentPartyIndex < Len(parties) THEN parties[currentPartyIndex + 1]
    ELSE parties[Len(parties)]

\* Mutant of AssignSeat: a party is full only past its count (> instead of >=).
AssignSeat_offByOne(st, parties, positions, i) ==
    IF st.threw \/ i > Len(positions) \/ parties = <<>>
    THEN [st EXCEPT !.threw = TRUE]
    ELSE LET full == st.currentPartySeats > CurrentPartyData(parties, st.currentPartyIndex).count
             index == IF full THEN st.currentPartyIndex + 1 ELSE st.currentPartyIndex
             moved == full /\ index < Len(parties)
             data == IF moved THEN parties[index + 1]
                     ELSE CurrentPartyData(parties, st.currentPartyIndex)
             partySeats == IF moved THEN 0 ELSE st.currentPartySeats
         IN  [seats |-> Append(st.seats, [row |-> positions[i].row,
                                          angle |-> positions[i].angle,
                                          color |-> data.color,
                                          partyAlias |-> data.partyAlias]),
              currentPartyIndex |-> index,
              currentPartySeats |-> partySeats + 1,
              threw |-> FALSE]

\* One iteration of for (let i = 0; i < totalSeats; i++); i counts from 1.
\* Reading position.x of a missing position, or .count of a missing party
\* group, throws a TypeError.
AssignSeat(st, parties, positions, i) ==
    IF st.threw \/ i > Len(positions) \/ parties = <<>>
    THEN [st EXCEPT !.threw = TRUE]
    ELSE LET full == st.currentPartySeats >= CurrentPartyData(parties, st.currentPartyIndex).count
             index == IF full THEN st.currentPartyIndex + 1 ELSE st.currentPartyIndex
             moved == full /\ index < Len(parties)
             data == IF moved THEN parties[index + 1]
                     ELSE CurrentPartyData(parties, st.currentPartyIndex)
             partySeats == IF moved THEN 0 ELSE st.currentPartySeats
         IN  [seats |-> Append(st.seats, [row |-> positions[i].row,
                                          angle |-> positions[i].angle,
                                          color |-> data.color,
                                          partyAlias |-> data.partyAlias]),
              currentPartyIndex |-> index,
              currentPartySeats |-> partySeats + 1,
              threw |-> FALSE]

\* Iterations lo .. hi of the loop, from the loop state st: the range is run in
\* two halves, and a TypeError in the left half ends the loop.
RECURSIVE AssignRange(_, _, _, _, _)
AssignRange(st, parties, positions, lo, hi) ==
    IF lo > hi THEN st
    ELSE IF lo = hi THEN AssignSeat(st, parties, positions, lo)
    ELSE LET mid == (lo + hi) \div 2
             left == AssignRange(st, parties, positions, lo, mid)
         IN  IF left.threw THEN left
             ELSE AssignRange(left, parties, positions, mid + 1, hi)

\* Mutant of AssignSeats: the first party group is destructured without the
\* fallback, which throws a TypeError when there is no party group.
AssignSeats_noFallback(parties, positions, totalSeats) ==
    AssignRange([seats |-> <<>>, currentPartyIndex |-> 0, currentPartySeats |-> 0,
                 threw |-> parties = <<>>],
                parties, positions, 1, totalSeats)

\* The whole loop for (let i = 0; i < totalSeats; i++), after
\* let [, currentPartyData] = sortedParties[0] || ["IND", partyGroups["IND"]].
AssignSeats(parties, positions, totalSeats) ==
    AssignRange([seats |-> <<>>, currentPartyIndex |-> 0, currentPartySeats |-> 0,
                 threw |-> FALSE],
                parties, positions, 1, totalSeats)

(***************************************************************************)
(* mergeSequentialMilitancias as a state machine: the call (normalize and  *)
(* sort), one step per loop iteration, and the return.                     *)
(***************************************************************************)
MergeInit ==
    /\ militancias \in MilitanciasInputs
    /\ sorted = <<>>
    /\ mIdx = 0
    /\ merged = <<>>
    /\ mpc = "idle"
    /\ ChartIdle
    /\ CallersIdle
    /\ ServiceIdle
    /\ VotesIdle
    /\ ScreensIdle

MergeCall ==
    /\ mpc = "idle"
    /\ sorted' = SortByFechaInicio(normalizeMilitancias(militancias))
    /\ merged' = <<>>
    /\ mIdx' = 1
    /\ mpc' = "loop"
    /\ UNCHANGED <<militancias, chartVars, callerVars, serviceVars, votesVars, screenVars>>

MergeIterate ==
    /\ mpc = "loop"
    /\ mIdx <= Len(sorted)
    /\ merged' = MergeOne(merged, sorted[mIdx])
    /\ mIdx' = mIdx + 1
    /\ UNCHANGED <<militancias, sorted, mpc, chartVars, callerVars, serviceVars, votesVars, screenVars>>

MergeReturn ==
    /\ mpc = "loop"
    /\ mIdx > Len(sorted)
    /\ mpc' = "returned"
    /\ UNCHANGED <<militancias, sorted, mIdx, merged, chartVars, callerVars, serviceVars, votesVars, screenVars>>

MergeNext == MergeCall \/ MergeIterate \/ MergeReturn

SpecMerge == MergeInit /\ [][MergeNext]_vars

(***************************************************************************)
(* The legislators the chart is drawn for.  A legislator is one of a few   *)
(* feed records; the list is a head of up to MaxHead arbitrary legislators *)
(* followed by a run of equal ones, so that the list reaches the sizes at  *)
(* which the outermost row has no seat, one seat and two seats.            *)
(***************************************************************************)
MaxHead == 2

Dia0 == [dia |-> 0, seg |-> 0]
Dia1 == [dia |-> 1, seg |-> 0]
Dia1s == [dia |-> 1, seg |-> 1]
Dia2 == [dia |-> 2, seg |-> 0]

PartidoPC == [Id |-> "PC", Alias |-> "PC", Nombre |-> "Partido Comunista"]
PartidoDC == [Id |-> "DC", Alias |-> "DC", Nombre |-> "Partido Democrata Cristiano"]
PartidoUDI == [Id |-> "UDI", Alias |-> "UDI", Nombre |-> "Union Democrata Independiente"]
PartidoPDG == [Id |-> "PDG", Alias |-> "PDG", Nombre |-> "Partido de la Gente"]
PartidoSinAlias == [Id |-> "SA", Alias |-> "", Nombre |-> "Sin Partido"]

Membership(partido, inicio, termino) ==
    [Partido |-> partido, FechaInicio |-> inicio, FechaTermino |-> termino]

Legislator(isArray, militancia) ==
    [Diputado |-> [Militancias |-> [isArray |-> isArray, Militancia |-> militancia]]]

\* PC throughout, as a single Militancia object.
LegPC == Legislator(FALSE, Membership(PartidoPC, Dia0, Dia2))
\* PS until day 1, nothing afterwards.
LegPS == Legislator(TRUE, <<Membership(PartidoPS, Dia0, Dia1)>>)
LegDC == Legislator(TRUE, <<Membership(PartidoDC, Dia0, Dia2)>>)
\* RN until day 1 and UDI from day 1 on: both contain the instant day 1.
LegRNUDI == Legislator(TRUE, <<Membership(PartidoRN, Dia0, Dia1),
                               Membership(PartidoUDI, Dia1, Dia2)>>)
LegUDI == Legislator(TRUE, <<Membership(PartidoUDI, Dia0, Dia2)>>)
\* A party that is in neither lookup table.
LegPDG == Legislator(TRUE, <<Membership(PartidoPDG, Dia0, Dia2)>>)

\* A current membership whose party has an empty alias.
LegSinAlias == Legislator(TRUE, <<Membership(PartidoSinAlias, Dia0, Dia2)>>)

LegislatorPool == {LegPC, LegPS, LegDC, LegRNUDI, LegUDI, LegPDG, LegSinAlias}

\* The legislators of the run that follows the head, and the run's lengths.
PadPool == {LegPC, LegDC, LegRNUDI}
PadCounts == {0, 128}

Repeat(x, n) == [i \in 1..n |-> x]

LegislatorsInputs ==
    { head \o Repeat(pad, count) :
        head \in SeqsUpTo(LegislatorPool, MaxHead), pad \in PadPool, count \in PadCounts }

\* The instants the wall clock takes: day 1 at midnight and one second later.
ChartInstants == {DateGetTime(Dia1), DateGetTime(Dia1s)}

(***************************************************************************)
(* ParliamentChart as a state machine: the clock advances, and the         *)
(* component renders (the whole function body) any number of times.        *)
(***************************************************************************)
ChartInit ==
    /\ legislators \in LegislatorsInputs
    /\ now \in ChartInstants
    /\ reads = <<>>
    /\ sortedParties = <<>>
    /\ allPositions = <<>>
    /\ seats = <<>>
    /\ cpc = "idle"
    /\ MergeIdle
    /\ CallersIdle
    /\ ServiceIdle
    /\ VotesIdle
    /\ ScreensIdle

ClockTick ==
    /\ \E later \in ChartInstants : later > now /\ now' = later
    /\ UNCHANGED <<legislators, reads, sortedParties, allPositions, seats, cpc, mergeVars, callerVars, serviceVars, votesVars, screenVars>>

\* The index at which the clock may advance in the middle of the reduce: the
\* legislators before index tickAt read the old instant, the others the new.
\* (An advance before the first read or after the last is a ClockTick.)
InteriorTicks(n) == {k \in {2} : k <= n}

\* One render.  The clock reads `now` up to legislator tickAt - 1 and `later`
\* from legislator tickAt on.
Render(later, tickAt) ==
    LET totalSeats == Len(legislators)
        clock == [i \in 1..totalSeats |-> IF i < tickAt THEN now ELSE later]
    IN  /\ now' = later
        /\ reads' = clock
        /\ sortedParties' = SortedParties(PartyGroups(legislators, reads'))
        /\ allPositions' \in SortOutcomes(PooledPositions(SeatsPerRowArray(totalSeats), rows))
        /\ \E result \in {AssignSeats(sortedParties', allPositions', totalSeats)} :
              /\ seats' = result.seats
              /\ cpc' = IF result.threw THEN "threw" ELSE "rendered"
        /\ UNCHANGED <<legislators, mergeVars, callerVars, serviceVars, votesVars, screenVars>>

RenderChart ==
    \/ Render(now, 1)
    \/ \E later \in ChartInstants, tickAt \in InteriorTicks(Len(legislators)) :
          later > now /\ Render(later, tickAt)

ChartNext == ClockTick \/ RenderChart

SpecChart == ChartInit /\ [][ChartNext]_vars

(***************************************************************************)
(* The consolidator on the heap.  The records of the feed are objects: a   *)
(* Militancias object, the Militancia array (when the field is plural),    *)
(* and for each membership a Militancia object that refers to its own      *)
(* Partido object.  An object is known by its address, its index in heap;  *)
(* a field that holds an object holds its address.  Two screens, the       *)
(* legislator detail and the legislators list, consolidate the memberships *)
(* of the same legislator.                                                 *)
(***************************************************************************)
MaxShared == 2

\* The memberships the shared legislator's record is drawn from.
SharedPool ==
    { Membership(PartidoPS, Dia0, Dia1), Membership(PartidoPS, Dia1, Dia2),
      Membership(PartidoRN, Dia0, Dia0), Membership(PartidoPS, Dia0, Dia0) }

SharedInputs ==
    { [isArray |-> TRUE, Militancia |-> s] : s \in SeqsUpTo(SharedPool, MaxShared) }
    \cup { [isArray |-> FALSE, Militancia |-> m] : m \in SharedPool }

PartidoObject(p) ==
    [kind |-> "Partido", Id |-> p.Id, Alias |-> p.Alias, Nombre |-> p.Nombre]

MilitanciaObject(m, partido) ==
    [kind |-> "Militancia", Partido |-> partido,
     FechaInicio |-> m.FechaInicio, FechaTermino |-> m.FechaTermino]

MilitanciasObject(field) == [kind |-> "Militancias", Militancia |-> field]

ArrayObject(items) == [kind |-> "Array", items |-> items]

MergedObject(partido, inicio, termino, count, originals) ==
    [kind |-> "MergedMilitancia", Partido |-> partido, FechaInicio |-> inicio,
     FechaTermino |-> termino, periodCount |-> count, originalMilitancias |-> originals]

\* The heap after the feed's record was parsed: the Militancias object is at
\* address 1; a plural field is the array at address 2, whose j-th Militancia
\* is at address 2j + 2 and refers to its Partido at address 2j + 1.
ParsedFeed(input) ==
    IF input.isArray
    THEN [a \in 1..(2 + 2 * Len(input.Militancia)) |->
            IF a = 1 THEN MilitanciasObject(2)
            ELSE IF a = 2
                 THEN ArrayObject([j \in 1..Len(input.Militancia) |-> 2 * j + 2])
            ELSE IF a % 2 = 1
                 THEN PartidoObject(input.Militancia[(a - 1) \div 2].Partido)
            ELSE MilitanciaObject(input.Militancia[(a - 2) \div 2], a - 1)]
    ELSE <<MilitanciasObject(3), PartidoObject(input.Militancia.Partido),
           MilitanciaObject(input.Militancia, 2)>>

\* normalizeMilitancias: the array itself when the field is an array, a new
\* array of the one object otherwise.
HeapNormalize(h, root) ==
    IF h[h[root].Militancia].kind = "Array"
    THEN [heap |-> h, ref |-> h[root].Militancia]
    ELSE [heap |-> Append(h, ArrayObject(<<h[root].Militancia>>)), ref |-> Len(h) + 1]

\* The stable ascending sort by FechaInicio, on addresses.
RECURSIVE HeapInsertByFechaInicio(_, _, _)
HeapInsertByFechaInicio(h, s, x) ==
    IF s = <<>> THEN <<x>>
    ELSE IF DateGetTime(h[s[Len(s)]].FechaInicio) - DateGetTime(h[x].FechaInicio) > 0
         THEN Append(HeapInsertByFechaInicio(h, SubSeq(s, 1, Len(s) - 1), x), s[Len(s)])
         ELSE Append(s, x)

RECURSIVE HeapSortByFechaInicio(_, _)
HeapSortByFechaInicio(h, s) ==
    IF s = <<>> THEN <<>>
    ELSE HeapInsertByFechaInicio(h, HeapSortByFechaInicio(h, SubSeq(s, 1, Len(s) - 1)),
                                 s[Len(s)])

\* Mutant of HeapSortedCopy: the array is sorted in place, without the copy.
HeapSortedCopy_inPlace(h, normalized) ==
    [heap |-> [h EXCEPT ![normalized].items = HeapSortByFechaInicio(h, h[normalized].items)],
     ref |-> normalized]

\* [...normalized].sort(...): a new array, sorted.
HeapSortedCopy(h, normalized) ==
    [heap |-> Append(h, ArrayObject(HeapSortByFechaInicio(h, h[normalized].items))),
     ref |-> Len(h) + 1]

\* The condition of the if, on the array `entries` of merged entries.
HeapCanMerge(h, entries, m) ==
    /\ h[entries].items # <<>>
    /\ LET lastMerged == h[entries].items[Len(h[entries].items)]
       IN  /\ h[h[lastMerged].Partido].Id = h[h[m].Partido].Id
           /\ arePeriodsSequential(h[lastMerged].FechaTermino, h[m].FechaInicio)

\* The then-branch: three writes to the last merged entry.
HeapExtendLast(h, entries, m) ==
    LET lastMerged == h[entries].items[Len(h[entries].items)]
    IN  [h EXCEPT ![lastMerged].FechaTermino = h[m].FechaTermino,
                  ![lastMerged].periodCount = @ + 1,
                  ![h[lastMerged].originalMilitancias].items = Append(@, m)]

\* The else-branch: a new array [militancia], a new entry that refers to the
\* Partido object of militancia, and the push of the entry.
HeapPushNew(h, entries, m) ==
    LET originals == Len(h) + 1
        entry == Len(h) + 2
        grown == Append(Append(h, ArrayObject(<<m>>)),
                        MergedObject(h[m].Partido, h[m].FechaInicio, h[m].FechaTermino,
                                     1, originals))
    IN  [grown EXCEPT ![entries].items = Append(@, entry)]

HeapMergeOne(h, entries, m) ==
    IF HeapCanMerge(h, entries, m) THEN HeapExtendLast(h, entries, m)
    ELSE HeapPushNew(h, entries, m)

\* The stable descending sort by FechaInicio, on addresses:
\* sort((a, b) => getTime(b.FechaInicio) - getTime(a.FechaInicio)).
RECURSIVE HeapInsertByFechaInicioDesc(_, _, _)
HeapInsertByFechaInicioDesc(h, s, x) ==
    IF s = <<>> THEN <<x>>
    ELSE IF DateGetTime(h[x].FechaInicio) - DateGetTime(h[s[Len(s)]].FechaInicio) > 0
         THEN Append(HeapInsertByFechaInicioDesc(h, SubSeq(s, 1, Len(s) - 1), x), s[Len(s)])
         ELSE Append(s, x)

RECURSIVE HeapSortByFechaInicioDesc(_, _)
HeapSortByFechaInicioDesc(h, s) ==
    IF s = <<>> THEN <<>>
    ELSE HeapInsertByFechaInicioDesc(h, HeapSortByFechaInicioDesc(h, SubSeq(s, 1, Len(s) - 1)),
                                     s[Len(s)])

CallersInit ==
    /\ \E input \in SharedInputs :
          /\ heap = ParsedFeed(input)
          /\ inputEnd = Len(ParsedFeed(input))
    /\ calls = [c \in Callers |-> [pc |-> "idle", sorted |-> 0, idx |-> 0, merged |-> 0]]
    /\ MergeIdle
    /\ ChartIdle
    /\ ServiceIdle
    /\ VotesIdle
    /\ ScreensIdle

\* mergeSequentialMilitancias(Diputado.Militancias) up to the loop: normalize,
\* sorted copy, merged = [].
HeapCall(c) ==
    /\ calls[c].pc = "idle"
    /\ \E s \in {HeapSortedCopy(HeapNormalize(heap, 1).heap, HeapNormalize(heap, 1).ref)} :
          /\ heap' = Append(s.heap, ArrayObject(<<>>))
          /\ calls' = [calls EXCEPT ![c] = [pc |-> "loop", sorted |-> s.ref, idx |-> 1,
                                            merged |-> Len(s.heap) + 1]]
    /\ UNCHANGED <<inputEnd, mergeVars, chartVars, serviceVars, votesVars, screenVars>>

\* One iteration of the for-of loop.
HeapIterate(c) ==
    /\ calls[c].pc = "loop"
    /\ calls[c].idx <= Len(heap[calls[c].sorted].items)
    /\ heap' = HeapMergeOne(heap, calls[c].merged, heap[calls[c].sorted].items[calls[c].idx])
    /\ calls' = [calls EXCEPT ![c].idx = @ + 1]
    /\ UNCHANGED <<inputEnd, mergeVars, chartVars, serviceVars, votesVars, screenVars>>

\* return merged
HeapReturn(c) ==
    /\ calls[c].pc = "loop"
    /\ calls[c].idx > Len(heap[calls[c].sorted].items)
    /\ calls' = [calls EXCEPT ![c].pc = "returned"]
    /\ UNCHANGED <<heap, inputEnd, mergeVars, chartVars, serviceVars, votesVars, screenVars>>

\* LegislatorDetailScreen: mergedMilitancias.sort(...) sorts the returned array
\* in place, most recent first, before mapping it.
DetailRender ==
    /\ calls["detail"].pc = "returned"
    /\ heap' = [heap EXCEPT ![calls["detail"].merged].items =
                                HeapSortByFechaInicioDesc(heap, @)]
    /\ calls' = [calls EXCEPT !["detail"].pc = "rendered"]
    /\ UNCHANGED <<inputEnd, mergeVars, chartVars, serviceVars, votesVars, screenVars>>

\* LegislatorsScreen.renderLegislator: reads mergedMilitancias.length.
ListRender ==
    /\ calls["list"].pc = "returned"
    /\ calls' = [calls EXCEPT !["list"].pc = "rendered"]
    /\ UNCHANGED <<heap, inputEnd, mergeVars, chartVars, serviceVars, votesVars, screenVars>>

CallersNext ==
    \/ \E c \in Callers : HeapCall(c)
    \/ \E c \in Callers : HeapIterate(c)
    \/ \E c \in Callers : HeapReturn(c)
    \/ DetailRender
    \/ ListRender

SpecCallers == CallersInit /\ [][CallersNext]_vars

(***************************************************************************)
(* services/CongressAPIService: the request counters, and the statistics   *)
(* screen (ExploreScreen) that shows them.                                 *)
(***************************************************************************)
MaxRequests == 2

\* The length the log buffer is kept to.
MaxLogs == 100

\* ((requestCount - failedCount) / requestCount) * 100 when requestCount > 0,
\* else 0, then toFixed(1): kept as the number of tenths, rounded to nearest.
TasaExito(total, failed) ==
    IF total > 0 THEN (2000 * (total - failed) + total) \div (2 * total) ELSE 0

\* CongressAPIService.getRequestStats
getRequestStats ==
    [peticiones_totales |-> requestCount,
     peticiones_fallidas |-> failedCount,
     tasa_exito |-> TasaExito(requestCount, failedCount)]

\* obj[key]: the value of a property, undefined when the object has none.
Property(obj, key) ==
    IF key \in DOMAIN obj THEN [defined |-> TRUE, value |-> obj[key]]
    ELSE [defined |-> FALSE, value |-> 0]

\* v || 0
OrZero(v) == IF v.defined /\ v.value # 0 THEN v.value ELSE 0

\* ExploreScreen: what the render shows.  The cards are inside
\* {stats && (...)} and the loading view is returned before them.
CardsShown == ~loading /\ stats # Null

\* {stats.total_requests || 0}
ShownTotal == OrZero(Property(stats, "total_requests"))

\* {stats.successful_requests || 0}
ShownSuccessful == OrZero(Property(stats, "successful_requests"))

\* {stats.failed_requests > 0 && (...)}: undefined > 0 is false.
FailedCardShown ==
    Property(stats, "failed_requests").defined /\ Property(stats, "failed_requests").value > 0

\* {stats.failed_requests}
ShownFailed == Property(stats, "failed_requests").value

ServiceInit ==
    /\ ServiceIdle
    /\ MergeIdle
    /\ ChartIdle
    /\ CallersIdle
    /\ VotesIdle
    /\ ScreensIdle

\* log: the entry pushed.  Each call creates a new object, told apart here
\* by the number of the call that created it; the timestamp is left out.
LogEntry(n, level, message) == [id |-> n, level |-> level, message |-> message]

\* Mutant of log: the newest entry is dropped when the buffer is full.
log_evictNewest(buf, n, level, message) ==
    LET pushed == Append(buf, LogEntry(n, level, message))
    IN  IF Len(pushed) > MaxLogs THEN SubSeq(pushed, 1, MaxLogs) ELSE pushed

\* log(level, message) on the buffer buf, as the n-th call: push, then shift
\* when the buffer is longer than 100.
log(buf, n, level, message) ==
    LET pushed == Append(buf, LogEntry(n, level, message))
    IN  IF Len(pushed) > MaxLogs THEN Tail(pushed) ELSE pushed

\* Consecutive calls of log, one per <<level, message>> of msgs, the first
\* being call number n.
RECURSIVE LogAll(_, _, _)
LogAll(buf, n, msgs) ==
    IF msgs = <<>> THEN buf
    ELSE LogAll(log(buf, n, msgs[1][1], msgs[1][2]), n + 1, Tail(msgs))

\* The calls of log that _makeRequest makes at each of its stages.
StartLogs == <<<<"INFO", "peticion">>, <<"DEBUG", "url">>, <<"DEBUG", "parametros">>>>
ResponseLogs == <<<<"INFO", "completada">>, <<"DEBUG", "tamano">>>>
ParsedLogs == <<<<"DEBUG", "parseada">>, <<"DEBUG", "datos">>>>
CatchLogs == <<<<"ERROR", "fallo">>, <<"ERROR", "url fallida">>>>

\* The number of _makeRequest calls suspended at the HTTP await.
inFlight == Cardinality({i \in 1..Len(requests) : requests[i] = "http"})

\* _makeRequest up to the await of client.get: three logs, requestCount++.
RequestStart ==
    /\ Len(requests) < MaxRequests
    /\ logs' = LogAll(logs, logCalls + 1, StartLogs)
    /\ logCalls' = logCalls + Len(StartLogs)
    /\ requestCount' = requestCount + 1
    /\ requests' = Append(requests, "http")
    /\ UNCHANGED <<failedCount, recent, statsData, stats, loading, epc,
                   mergeVars, chartVars, callerVars, votesVars, screenVars>>

\* _makeRequest after the await of client.get, the response arrived: two
\* logs, then _parseXML runs (the document parses or the parser throws) and
\* the call is suspended at the await of its promise.
RequestResponse(i) ==
    /\ requests[i] = "http"
    /\ logs' = LogAll(logs, logCalls + 1, ResponseLogs)
    /\ logCalls' = logCalls + Len(ResponseLogs)
    /\ \E parsed \in {"parsed", "parseError"} :
           requests' = [requests EXCEPT ![i] = parsed]
    /\ UNCHANGED <<requestCount, failedCount, recent, statsData, stats, loading, epc,
                   mergeVars, chartVars, callerVars, votesVars, screenVars>>

\* _makeRequest after the await of _parseXML, fulfilled: two logs, return.
RequestSucceed(i) ==
    /\ requests[i] = "parsed"
    /\ logs' = LogAll(logs, logCalls + 1, ParsedLogs)
    /\ logCalls' = logCalls + Len(ParsedLogs)
    /\ requests' = [requests EXCEPT ![i] = "returned"]
    /\ UNCHANGED <<requestCount, failedCount, recent, statsData, stats, loading, epc,
                   mergeVars, chartVars, callerVars, votesVars, screenVars>>

\* Mutant of CatchBlock: the failure is logged but not counted.
CatchBlock_notCounted(i) ==
    /\ failedCount' = failedCount
    /\ logs' = LogAll(logs, logCalls + 1, CatchLogs)
    /\ logCalls' = logCalls + Len(CatchLogs)
    /\ requests' = [requests EXCEPT ![i] = "thrown"]

\* _makeRequest, the catch block: failedCount++, two logs, rethrow.
CatchBlock(i) ==
    /\ failedCount' = failedCount + 1
    /\ logs' = LogAll(logs, logCalls + 1, CatchLogs)
    /\ logCalls' = logCalls + Len(CatchLogs)
    /\ requests' = [requests EXCEPT ![i] = "thrown"]

\* _makeRequest after the await of client.get, rejected (network error,
\* timeout or HTTP error status): the catch block.
RequestFail(i) ==
    /\ requests[i] = "http"
    /\ CatchBlock(i)
    /\ UNCHANGED <<requestCount, recent, statsData, stats, loading, epc,
                   mergeVars, chartVars, callerVars, votesVars, screenVars>>

\* _makeRequest after the await of _parseXML, rejected: the catch block.
RequestParseFail(i) ==
    /\ requests[i] = "parseError"
    /\ CatchBlock(i)
    /\ UNCHANGED <<requestCount, recent, statsData, stats, loading, epc,
                   mergeVars, chartVars, callerVars, votesVars, screenVars>>

\* ExploreScreen mounts (stats = null, loading = true) and its effect runs
\* loadStats up to the await: setLoading(true), getRequestStats().
LoadStatsCall ==
    /\ epc \in {"unmounted", "shown"}
    /\ stats' = Null
    /\ loading' = TRUE
    /\ statsData' = getRequestStats
    /\ epc' = "awaiting"
    /\ UNCHANGED <<requestCount, failedCount, logs, logCalls, requests, recent,
                   mergeVars, chartVars, callerVars, votesVars, screenVars>>

\* loadStats after the await: setStats(statsData), then setLoading(false).
LoadStatsResume ==
    /\ epc = "awaiting"
    /\ stats' = statsData
    /\ loading' = FALSE
    /\ epc' = "shown"
    /\ UNCHANGED <<requestCount, failedCount, logs, logCalls, requests, recent,
                   statsData, mergeVars, chartVars, callerVars, votesVars, screenVars>>

ServiceNext ==
    \/ RequestStart
    \/ \E i \in 1..Len(requests) : RequestResponse(i)
    \/ \E i \in 1..Len(requests) : RequestSucceed(i)
    \/ \E i \in 1..Len(requests) : RequestFail(i)
    \/ \E i \in 1..Len(requests) : RequestParseFail(i)
    \/ LoadStatsCall
    \/ LoadStatsResume

SpecService == ServiceInit /\ [][ServiceNext]_vars

(***************************************************************************)
(* services/CongressAPIService: the log buffer, written by log and read by *)
(* getRecentLogs, under direct calls of the two methods.                   *)
(***************************************************************************)
MaxLogCalls == 102

\* getRecentLogs(count = 20): the default of the parameter.
DefaultCount == 20

\* The arguments getRecentLogs is called with.
RecentCounts == {0, 2, DefaultCount, MaxLogs + 1}

\* Array.prototype.slice(start): a negative start counts from the end, and
\* the start is clamped to the array.
SliceFrom(arr, start) ==
    LET len == Len(arr)
        k == IF start < 0
             THEN (IF len + start > 0 THEN len + start ELSE 0)
             ELSE (IF start < len THEN start ELSE len)
    IN  SubSeq(arr, k + 1, len)

\* CongressAPIService.getRecentLogs: this.logs.slice(-count); -0 is 0.
getRecentLogs(count) == SliceFrom(logs, 0 - count)

LogInit ==
    /\ ServiceIdle
    /\ MergeIdle
    /\ ChartIdle
    /\ CallersIdle
    /\ VotesIdle
    /\ ScreensIdle

\* A call of log(level, message).
LogCall ==
    /\ logCalls < MaxLogCalls
    /\ logs' = log(logs, logCalls + 1, "INFO", "mensaje")
    /\ logCalls' = logCalls + 1
    /\ UNCHANGED <<requestCount, failedCount, requests, recent,
                   statsData, stats, loading, epc,
                   mergeVars, chartVars, callerVars, votesVars, screenVars>>

\* A call of getRecentLogs(count).
GetRecentLogsCall ==
    /\ \E count \in RecentCounts :
           recent' = [count |-> count, result |-> getRecentLogs(count)]
    /\ UNCHANGED <<requestCount, failedCount, logs, logCalls, requests,
                   statsData, stats, loading, epc,
                   mergeVars, chartVars, callerVars, votesVars, screenVars>>

LogNext ==
    \/ LogCall
    \/ GetRecentLogsCall

SpecLog == LogInit /\ [][LogNext]_vars

(***************************************************************************)
(* VotesScreen: the year search.  loadVotes suspends at the await of       *)
(* CongressAPI.getVotesByYear; several calls may be suspended at once and  *)
(* their promises settle in any order.  State updates made in one          *)
(* continuation are batched into one render, and the effect that depends   *)
(* on loadVotes (recreated when year changes) runs after that render.  The *)
(* service's own counters and log are those of SpecService.                *)
(***************************************************************************)
MaxSubmits == 2

\* The texts the user types into the year input.
SearchTexts == {<<2, 0, 2, 3>>, <<2, 0, 2, 4>>, <<2, 0, 2>>}

\* parseInt on a text of decimal digits.
RECURSIVE ParseInt(_)
ParseInt(text) ==
    IF Len(text) = 1 THEN text[1]
    ELSE 10 * ParseInt(SubSeq(text, 1, Len(text) - 1)) + text[Len(text)]

\* The array getVotesByYear resolves with: the votes of the year asked for.
VotesOfYear(anno) == <<[Anno |-> anno]>>

\* loadVotes(yearToLoad) up to its await: setLoading(true) and the request
\* for parseInt(yearToLoad).
LoadVotesCall(pending, yearToLoad) ==
    Append(pending, [yearToLoad |-> yearToLoad, anno |-> ParseInt(yearToLoad)])

\* The render after a continuation that ended with setLoading(false): when
\* year changed, loadVotes is a new function and the effect calls it with
\* its default argument, the new year.
EffectAfter(pending, oldYear, newYear) ==
    IF newYear # oldYear
    THEN [fetches |-> LoadVotesCall(pending, newYear), loading |-> TRUE]
    ELSE [fetches |-> pending, loading |-> FALSE]

RemoveAt(seq, i) == SubSeq(seq, 1, i - 1) \o SubSeq(seq, i + 1, Len(seq))

VotesInit ==
    /\ VotesIdle
    /\ MergeIdle
    /\ ChartIdle
    /\ CallersIdle
    /\ ServiceIdle
    /\ ScreensIdle

\* The first render and its effect: loadVotes() for the initial year.
VotesMount ==
    /\ vpc = "unmounted"
    /\ vpc' = "mounted"
    /\ votesLoading' = TRUE
    /\ fetches' = LoadVotesCall(fetches, year)
    /\ UNCHANGED <<year, votes, searchYear, submitted, errors,
                   mergeVars, chartVars, callerVars, serviceVars, screenVars>>

\* onChangeText={setSearchYear}
ChangeText(text) ==
    /\ vpc = "mounted"
    /\ searchYear # text
    /\ searchYear' = text
    /\ UNCHANGED <<year, votes, votesLoading, fetches, submitted, errors, vpc,
                   mergeVars, chartVars, callerVars, serviceVars, screenVars>>

\* handleSearch: loadVotes(searchYear) when the text has four characters.
HandleSearch ==
    /\ vpc = "mounted"
    /\ Len(submitted) < MaxSubmits
    /\ Len(searchYear) = 4
    /\ votesLoading' = TRUE
    /\ fetches' = LoadVotesCall(fetches, searchYear)
    /\ submitted' = Append(submitted, searchYear)
    /\ UNCHANGED <<year, votes, searchYear, errors, vpc,
                   mergeVars, chartVars, callerVars, serviceVars, screenVars>>

\* loadVotes after its await, fulfilled: setVotes(data), setYear(yearToLoad),
\* setLoading(false), then the render and its effect.
FetchResolve(i) ==
    /\ votes' = VotesOfYear(fetches[i].anno)
    /\ year' = fetches[i].yearToLoad
    /\ \E after \in {EffectAfter(RemoveAt(fetches, i), year, year')} :
          /\ fetches' = after.fetches
          /\ votesLoading' = after.loading
    /\ UNCHANGED <<searchYear, submitted, errors, vpc,
                   mergeVars, chartVars, callerVars, serviceVars, screenVars>>

\* loadVotes after its await, rejected: console.error, setLoading(false).
FetchReject(i) ==
    /\ errors' = errors + 1
    /\ votesLoading' = FALSE
    /\ fetches' = RemoveAt(fetches, i)
    /\ UNCHANGED <<year, votes, searchYear, submitted, vpc,
                   mergeVars, chartVars, callerVars, serviceVars, screenVars>>

VotesNext ==
    \/ VotesMount
    \/ \E text \in SearchTexts : ChangeText(text)
    \/ HandleSearch
    \/ \E i \in 1..Len(fetches) : FetchResolve(i)
    \/ \E i \in 1..Len(fetches) : FetchReject(i)

SpecVotes == VotesInit /\ [][VotesNext]_vars

\* Every pending request is answered: each promise settles.
SpecVotesLive ==
    /\ SpecVotes
    /\ WF_vars(VotesMount)
    /\ WF_vars(\E i \in 1..Len(fetches) : FetchResolve(i) \/ FetchReject(i))

(***************************************************************************)
(* The legislator screens: the party history card of the detail screen and *)
(* the parties indicator of a list item, each rendered from the Diputado   *)
(* record and the clock.                                                   *)
(***************************************************************************)
MaxHistory == 3

\* The memberships the rendered legislator's history is drawn from.
HistoryPool ==
    { Membership(PartidoPS, Dia0, Dia2), Membership(PartidoPS, Dia1, Dia2),
      Membership(PartidoPS, Dia0, Dia0), Membership(PartidoPS, Dia2, Dia2),
      Membership(PartidoRN, Dia0, Dia1), Membership(PartidoRN, Dia1s, Dia2) }

DiputadoInputs ==
    { [Militancias |-> [isArray |-> TRUE, Militancia |-> s]] :
        s \in SeqsUpTo(HistoryPool, MaxHistory) }
    \cup { [Militancias |-> [isArray |-> FALSE, Militancia |-> m]] : m \in HistoryPool }

\* The for-of loop of mergeSequentialMilitancias over the sorted memberships.
RECURSIVE MergeAll(_, _)
MergeAll(acc, s) ==
    IF s = <<>> THEN acc ELSE MergeAll(MergeOne(acc, s[1]), Tail(s))

mergeSequentialMilitancias(m) ==
    MergeAll(<<>>, SortByFechaInicio(normalizeMilitancias(m)))

\* mergedMilitancias.sort((a, b) => getTime(b.FechaInicio) - getTime(a.FechaInicio)):
\* the stable sort, most recent first.
RECURSIVE SortByFechaInicioDesc(_)
SortByFechaInicioDesc(s) ==
    IF s = <<>> THEN <<>>
    ELSE LET rest == SortByFechaInicioDesc(SubSeq(s, 1, Len(s) - 1))
             x == s[Len(s)]
             before == SelectSeq(rest, LAMBDA y :
                          DateGetTime(x.FechaInicio) - DateGetTime(y.FechaInicio) <= 0)
             after == SelectSeq(rest, LAMBDA y :
                          DateGetTime(x.FechaInicio) - DateGetTime(y.FechaInicio) > 0)
         IN  before \o <<x>> \o after

\* isCurrent: some original membership of the merged entry has the current
\* party's Id and an interval that contains the current membership's.
isCurrent(militancia, currentParty) ==
    /\ currentParty # Null
    /\ \E k \in 1..Len(militancia.originalMilitancias) :
          LET m == militancia.originalMilitancias[k]
          IN  /\ m.Partido.Id = currentParty.Partido.Id
              /\ DateGetTime(currentParty.FechaInicio) >= DateGetTime(m.FechaInicio)
              /\ DateGetTime(currentParty.FechaTermino) <= DateGetTime(m.FechaTermino)

ScreensInit ==
    /\ Diputado \in DiputadoInputs
    /\ detail = Null
    /\ listItem = Null
    /\ now \in ChartInstants
    /\ legislators = <<>>
    /\ reads = <<>>
    /\ sortedParties = <<>>
    /\ allPositions = <<>>
    /\ seats = <<>>
    /\ cpc = "idle"
    /\ MergeIdle
    /\ CallersIdle
    /\ ServiceIdle
    /\ VotesIdle

\* LegislatorDetailScreen: currentParty, mergedMilitancias, and the history
\* card (shown when there is an entry): the entries sorted most recent first,
\* each with its ACTUAL mark.
DetailScreenRender ==
    LET currentParty == getCurrentMilitancia(Diputado, now)
        mergedMilitancias == SortByFechaInicioDesc(mergeSequentialMilitancias(Diputado.Militancias))
    IN  /\ detail' = [currentParty |-> currentParty,
                      history |-> [j \in 1..Len(mergedMilitancias) |->
                                     [militancia |-> mergedMilitancias[j],
                                      isCurrent |-> isCurrent(mergedMilitancias[j], currentParty)]]]
        /\ detail' # detail
        /\ UNCHANGED <<Diputado, listItem, mergeVars, chartVars, callerVars, serviceVars, votesVars>>

\* LegislatorsScreen.renderLegislator: the indicator "N partidos politicos",
\* shown when mergedMilitancias.length > 1 with N = mergedMilitancias.length.
ListItemRender ==
    LET mergedMilitancias == mergeSequentialMilitancias(Diputado.Militancias)
    IN  /\ listItem = Null
        /\ listItem' = [shown |-> Len(mergedMilitancias) > 1, count |-> Len(mergedMilitancias)]
        /\ UNCHANGED <<Diputado, detail, mergeVars, chartVars, callerVars, serviceVars, votesVars>>

ScreensNext ==
    \/ ClockTick
    \/ DetailScreenRender
    \/ ListItemRender

SpecScreens == ScreensInit /\ [][ScreensNext]_vars

(***************************************************************************)
(* Claims about the consolidator, checked under SpecMerge.                 *)
(***************************************************************************)
\* interval.FechaInicio - last.FechaTermino, in milliseconds.
Gap(last, interval) == DateGetTime(interval.FechaInicio) - DateGetTime(last.FechaTermino)

\* The entry that wraps one interval.
Wrapped(interval) ==
    [Partido |-> interval.Partido, FechaInicio |-> interval.FechaInicio,
     FechaTermino |-> interval.FechaTermino, periodCount |-> 1,
     originalMilitancias |-> <<interval>>]

\* A loop iteration is being taken from this state to the next.
Iterating == mpc = "loop" /\ mIdx <= Len(sorted) /\ mIdx' = mIdx + 1

\* The iteration merged sorted[mIdx] into the last entry of merged.
MergedIntoLast ==
    /\ merged # <<>>
    /\ Len(merged') = Len(merged)
    /\ merged'[Len(merged)].periodCount = merged[Len(merged)].periodCount + 1
    /\ merged'[Len(merged)].FechaTermino = sorted[mIdx].FechaTermino

\* The iteration started a new entry for sorted[mIdx].
StartedNewEntry == merged' = Append(merged, Wrapped(sorted[mIdx]))

\* C2: the scan visits the intervals in ascending start-date order, and an
\* interval is merged into the last emitted entry if and only if both have the
\* same Partido.Id and the gap FechaInicio - last.FechaTermino lies in the
\* closed range [0, 1 day]; otherwise it starts a new entry.
C2_MergeIffSamePartyAndGapWithinDay ==
    [][Iterating =>
        /\ (mIdx > 1 =>
              DateGetTime(sorted[mIdx - 1].FechaInicio) <= DateGetTime(sorted[mIdx].FechaInicio))
        /\ (MergedIntoLast <=>
              /\ merged # <<>>
              /\ merged[Len(merged)].Partido.Id = sorted[mIdx].Partido.Id
              /\ Gap(merged[Len(merged)], sorted[mIdx]) >= 0
              /\ Gap(merged[Len(merged)], sorted[mIdx]) <= MsPerDay)
        /\ (MergedIntoLast \/ StartedNewEntry)]_vars

\* C2 witness: the call returned an entry of two periods whose gap is exactly
\* one day.
C2_Witness ==
    /\ mpc = "returned"
    /\ \E k \in 1..Len(merged) :
          /\ merged[k].periodCount = 2
          /\ Gap(merged[k].originalMilitancias[1], merged[k].originalMilitancias[2]) = MsPerDay

\* C3 as stated: an interval of the same party that starts before the last
\* merged entry ends (a negative gap) is still merged into that entry.
C3_OverlapStillMerged ==
    [][(/\ Iterating
        /\ merged # <<>>
        /\ merged[Len(merged)].Partido.Id = sorted[mIdx].Partido.Id
        /\ Gap(merged[Len(merged)], sorted[mIdx]) < 0) => MergedIntoLast]_vars

\* C3 amended: an interval of the same party that starts before the last merged
\* entry ends is not merged: it starts a new entry of its own, with
\* periodCount 1, and the last entry is left as it was.
C3_OverlapStartsNewEntry ==
    [][(/\ Iterating
        /\ merged # <<>>
        /\ merged[Len(merged)].Partido.Id = sorted[mIdx].Partido.Id
        /\ Gap(merged[Len(merged)], sorted[mIdx]) < 0) => StartedNewEntry]_vars

\* C3 witness: the call returned two adjacent entries of one party where the
\* second starts before the first ends.
C3_Witness ==
    /\ mpc = "returned"
    /\ \E k \in 1..(Len(merged) - 1) :
          /\ merged[k].Partido.Id = merged[k + 1].Partido.Id
          /\ Gap(merged[k], merged[k + 1]) < 0

\* C8: every returned MergedMilitancia has a non-empty originalMilitancias
\* sorted ascending by FechaInicio, starts where its first original starts,
\* ends where its last original ends, and counts its originals in periodCount.
C8_MergedEntryShape ==
    mpc = "returned" =>
        \A k \in 1..Len(merged) :
            LET e == merged[k]
                o == e.originalMilitancias
            IN  /\ Len(o) >= 1
                /\ \A i \in 1..(Len(o) - 1) :
                      DateGetTime(o[i].FechaInicio) <= DateGetTime(o[i + 1].FechaInicio)
                /\ e.FechaInicio = o[1].FechaInicio
                /\ e.FechaTermino = o[Len(o)].FechaTermino
                /\ e.periodCount = Len(o)

\* C8 witness: the call returned an entry built from three intervals whose
\* end dates differ.
C8_Witness ==
    /\ mpc = "returned"
    /\ \E k \in 1..Len(merged) :
          /\ merged[k].periodCount = 3
          /\ merged[k].originalMilitancias[1].FechaTermino
                # merged[k].originalMilitancias[3].FechaTermino

\* Entry b starts within [0, 1 day] after entry a ends.
SequentialEntries(a, b) == Gap(a, b) >= 0 /\ Gap(a, b) <= MsPerDay

\* C9 as stated: the output holds no two entries of one party that are
\* sequential with each other, adjacent in the output or not.
C9_NoSequentialSamePartyEntries ==
    mpc = "returned" =>
        \A i, j \in 1..Len(merged) :
            (i # j /\ merged[i].Partido.Id = merged[j].Partido.Id)
                => ~SequentialEntries(merged[i], merged[j])

\* C9 amended: no entry of the output is sequential to the entry right before
\* it: two adjacent entries of one party never have the later one start within
\* [0, 1 day] after the earlier one ends.
C9_NoSequentialAdjacentEntries ==
    mpc = "returned" =>
        \A k \in 1..(Len(merged) - 1) :
            merged[k].Partido.Id = merged[k + 1].Partido.Id
                => ~SequentialEntries(merged[k], merged[k + 1])

\* C9 witness: the call returned two adjacent entries of one party (the gap
\* between them is more than a day).
C9_Witness ==
    /\ mpc = "returned"
    /\ \E k \in 1..(Len(merged) - 1) :
          /\ merged[k].Partido.Id = merged[k + 1].Partido.Id
          /\ Gap(merged[k], merged[k + 1]) > MsPerDay

\* The intervals of the input in feed order, read off the input itself.
InputIntervals ==
    IF militancias.isArray THEN militancias.Militancia ELSE <<militancias.Militancia>>

\* The originalMilitancias of the first k entries, one after the other.
RECURSIVE FlattenOriginals(_, _)
FlattenOriginals(entries, k) ==
    IF k = 0 THEN <<>>
    ELSE FlattenOriginals(entries, k - 1) \o entries[k].originalMilitancias

\* The intervals of s that start at the date fecha, in the order of s.
StartingAt(s, fecha) == SelectSeq(s, LAMBDA m : m.FechaInicio = fecha)

\* C15: the call returns its entries in ascending FechaInicio order whatever
\* the order of the input; the intervals are processed in ascending
\* FechaInicio order, those with equal FechaInicio in their input order.
C15_AscendingStableOrder ==
    mpc = "returned" =>
        /\ \A k \in 1..(Len(merged) - 1) :
              DateGetTime(merged[k].FechaInicio) <= DateGetTime(merged[k + 1].FechaInicio)
        /\ FlattenOriginals(merged, Len(merged)) = sorted
        /\ \A i \in 1..(Len(sorted) - 1) :
              DateGetTime(sorted[i].FechaInicio) <= DateGetTime(sorted[i + 1].FechaInicio)
        /\ \A fecha \in Fechas : StartingAt(sorted, fecha) = StartingAt(InputIntervals, fecha)

\* C15 witness: the call returned at least two entries for an input that was
\* not in start-date order and held two different intervals of equal
\* FechaInicio.
C15_Witness ==
    /\ mpc = "returned"
    /\ Len(merged) >= 2
    /\ sorted # InputIntervals
    /\ \E i, j \in 1..Len(InputIntervals) :
          /\ i < j
          /\ InputIntervals[i] # InputIntervals[j]
          /\ InputIntervals[i].FechaInicio = InputIntervals[j].FechaInicio

\* C19: consolidating an empty list returns an empty list, and consolidating
\* one interval (alone in a list, or as the single Militancia object) returns
\* exactly that interval wrapped: its party and dates, periodCount 1 and
\* originalMilitancias holding it alone.
C19_EmptyAndSingleton ==
    mpc = "returned" =>
        /\ (militancias.isArray /\ Len(militancias.Militancia) = 0) => merged = <<>>
        /\ (militancias.isArray /\ Len(militancias.Militancia) = 1)
              => merged = <<Wrapped(militancias.Militancia[1])>>
        /\ ~militancias.isArray => merged = <<Wrapped(militancias.Militancia)>>

\* C19 witness: the call returned one entry for a single Militancia object.
C19_Witness ==
    /\ mpc = "returned"
    /\ ~militancias.isArray
    /\ Len(merged) = 1
    /\ merged[1].periodCount = 1
    /\ merged[1].originalMilitancias = <<militancias.Militancia>>

(***************************************************************************)
(* Claims about the consolidator's use of the heap, checked under          *)
(* SpecCallers.                                                            *)
(***************************************************************************)
\* The addresses an object holds.
Refs(obj) ==
    IF obj.kind = "Array" THEN {obj.items[i] : i \in 1..Len(obj.items)}
    ELSE IF obj.kind = "Militancias" THEN {obj.Militancia}
    ELSE IF obj.kind = "Militancia" THEN {obj.Partido}
    ELSE IF obj.kind = "MergedMilitancia" THEN {obj.Partido, obj.originalMilitancias}
    ELSE {}

\* The addresses reachable from the addresses of S.
RECURSIVE ReachableFrom(_, _)
ReachableFrom(h, S) ==
    LET more == S \cup UNION {Refs(h[a]) : a \in S}
    IN  IF more = S THEN S ELSE ReachableFrom(h, more)

\* The objects of the input.
InputObjects == 1..inputEnd

\* The screen c holds the result of its call.
HasResult(c) == calls[c].pc \in {"returned", "rendered"}

\* The objects reachable from the entries of the array returned to screen c.
ResultObjects(c) == ReachableFrom(heap, Refs(heap[calls[c].merged]))

\* C13: mergeSequentialMilitancias never mutates its input: no step of a call
\* (nor of a screen's use of its result) changes an object of the input, so the
\* input list keeps its elements and their order, and every input interval its
\* FechaInicio, FechaTermino and Partido.
C13_InputNeverMutated ==
    [][\A a \in InputObjects : heap'[a] = heap[a]]_vars

\* C13 witness: a call returned an entry of two periods (its FechaTermino was
\* extended) for an input array that was not in start-date order.
C13_Witness ==
    /\ inputEnd > 0
    /\ heap[heap[1].Militancia].kind = "Array"
    /\ \E c \in Callers :
          /\ HasResult(c)
          /\ heap[calls[c].sorted].items # heap[heap[1].Militancia].items
          /\ \E e \in Refs(heap[calls[c].merged]) : heap[e].periodCount = 2

\* C14: the output of the consolidator is fresh and caller-owned: no object
\* reachable from a returned MergedMilitancia (its Partido, the elements of its
\* originalMilitancias) is an object of the input, and the results of two
\* screens share no object, so that a change made through one result cannot
\* show in the input or in the other result.
C14_OutputFreshAndOwned ==
    \A c \in Callers :
        HasResult(c) =>
            /\ ResultObjects(c) \cap InputObjects = {}
            /\ \A d \in Callers \ {c} :
                  HasResult(d) => ResultObjects(c) \cap ResultObjects(d) = {}

(***************************************************************************)
(* Claims about the seat layout, checked under SpecChart.                  *)
(***************************************************************************)
\* The seat counts of the first k parties of a party sequence, summed.
RECURSIVE CountUpTo(_, _)
CountUpTo(parties, k) ==
    IF k = 0 THEN 0 ELSE CountUpTo(parties, k - 1) + parties[k].count

\* C1: every render of a list of n legislators ends without an error and
\* draws exactly n seats.
C1_SeatCountExact ==
    /\ cpc # "threw"
    /\ cpc = "rendered" => Len(seats) = Len(legislators)

\* C1 witness: a render of more legislators than the four inner rows hold,
\* so that the adjusted outermost row supplies the rest.
C1_Witness ==
    /\ cpc = "rendered"
    /\ Len(legislators) > 128
    /\ Len(seats) = Len(legislators)
    /\ \E i \in 1..Len(seats) : seats[i].row = rows - 1

AlignmentRank(alignment) ==
    IF alignment = "left" THEN 1 ELSE IF alignment = "center" THEN 2 ELSE 3

\* C4: the legend lists the left parties by descending seat count, then the
\* center parties by descending seat count, then the right parties by
\* ascending seat count; the parties PC (left, 10), RN (right, 5) and
\* DC (center, 3) come out as PC, DC, RN.
C4_PartyOrder ==
    /\ cpc = "rendered" =>
          \A i, j \in 1..Len(sortedParties) :
              i < j =>
                  /\ AlignmentRank(sortedParties[i].alignment)
                        <= AlignmentRank(sortedParties[j].alignment)
                  /\ (sortedParties[i].alignment = sortedParties[j].alignment
                        /\ sortedParties[i].alignment \in {"left", "center"})
                        => sortedParties[i].count >= sortedParties[j].count
                  /\ (sortedParties[i].alignment = "right"
                        /\ sortedParties[j].alignment = "right")
                        => sortedParties[i].count <= sortedParties[j].count
    /\ LET group(alias, count) ==
               [partyName |-> alias, partyAlias |-> alias, count |-> count,
                color |-> ColorOf(alias), alignment |-> AlignmentOf(alias)]
           legend == SortedParties(<<group("PC", 10), group("RN", 5), group("DC", 3)>>)
       IN  [k \in 1..Len(legend) |-> legend[k].partyAlias] = <<"PC", "DC", "RN">>

\* C4 witness: a rendered legend with a left party followed by two right
\* parties of different sizes.
C4_Witness ==
    /\ cpc = "rendered"
    /\ \E i, j, k \in 1..Len(sortedParties) :
          /\ i < j /\ j < k
          /\ sortedParties[i].alignment = "left"
          /\ sortedParties[j].alignment = "right"
          /\ sortedParties[k].alignment = "right"
          /\ sortedParties[j].count < sortedParties[k].count

\* The number of positions the last render generated for a row.
SeatsInRow(row) == Cardinality({j \in 1..Len(allPositions) : allPositions[j].row = row})

\* C5: a seat that is alone in its row has a defined position at the row's
\* midpoint angle pi / 2, that is seat / (seatsInRow - 1) stands for 1 / 2:
\* no 0 / 0 was computed for it.
C5_SingleSeatAtMidpoint ==
    cpc = "rendered" =>
        \A i \in 1..Len(seats) :
            SeatsInRow(seats[i].row) = 1 =>
                /\ ~IsNaN(seats[i].angle)
                /\ 2 * seats[i].angle.num = seats[i].angle.den

\* C6: the seat counts of the legend entries sum to the number of legislators.
C6_LegendCountsSum ==
    cpc = "rendered" => CountUpTo(sortedParties, Len(sortedParties)) = Len(legislators)

\* C6 witness: a rendered legend of at least three parties, one of them a
\* party that is in no lookup table, for more than a hundred legislators.
C6_Witness ==
    /\ cpc = "rendered"
    /\ Len(legislators) > 100
    /\ Len(sortedParties) >= 3
    /\ \E k \in 1..Len(sortedParties) : sortedParties[k].partyAlias \notin DOMAIN PARTY_ALIGNMENT

\* No position of the last render has a NaN angle (so that the order the sort
\* leaves them in is fixed by the language).
NoNaNPosition == \A i \in 1..Len(allPositions) : ~IsNaN(allPositions[i].angle)

\* C7: a render that follows a render of the same legislators yields the same
\* seats and the same legend, whatever the wall clock reads.
C7_RenderIdempotent ==
    [][(cpc = "rendered" /\ cpc' = "rendered" /\ legislators' = legislators
            /\ NoNaNPosition /\ NoNaNPosition')
        => (seats' = seats /\ sortedParties' = sortedParties)]_vars

\* C10: walking the seats in order, the k-th party of the legend holds exactly
\* its seat count of consecutive seats, after the seats of the parties before
\* it, each seat with the party's alias and color; so the seats that carry a
\* party's alias number that party's count.
C10_SeatsInLegendBlocks ==
    cpc = "rendered" =>
        /\ \A k \in 1..Len(sortedParties) :
              \A i \in (CountUpTo(sortedParties, k - 1) + 1)..CountUpTo(sortedParties, k) :
                  /\ i <= Len(seats)
                  /\ seats[i].partyAlias = sortedParties[k].partyAlias
                  /\ seats[i].color = sortedParties[k].color
        /\ \A k \in 1..Len(sortedParties) :
              Cardinality({i \in 1..Len(seats) :
                              seats[i].partyAlias = sortedParties[k].partyAlias})
                  = sortedParties[k].count

\* C10 witness: a render of more than 128 seats in at least three blocks, the
\* middle one of more than one seat.
C10_Witness ==
    /\ cpc = "rendered"
    /\ Len(seats) > 128
    /\ Len(sortedParties) >= 3
    /\ sortedParties[2].count >= 2
    /\ seats[sortedParties[1].count + 1].partyAlias = sortedParties[2].partyAlias
    /\ seats[sortedParties[1].count + 2].partyAlias = sortedParties[2].partyAlias

\* a >= b on angles as numbers: false as soon as one of them is NaN.
AngleGeq(a, b) == ~IsNaN(a) /\ ~IsNaN(b) /\ ~AngleGreater(b, a)

\* a > b on angles as numbers: false as soon as one of them is NaN.
AngleGt(a, b) == ~IsNaN(a) /\ ~IsNaN(b) /\ AngleGreater(a, b)

\* The alignment of the legend entry that a seat's alias belongs to.
SeatAlignment(seat) ==
    LET k == CHOOSE k \in 1..Len(sortedParties) :
                 sortedParties[k].partyAlias = seat.partyAlias
    IN  sortedParties[k].alignment

\* C11: the seats are in non-increasing angle order across all rows, no seat
\* of another party has an angle strictly between the angles of two seats of
\* one party, and the alignments of the seats read left, center, right as the
\* angle decreases.
C11_SeatsByDescendingAngle ==
    cpc = "rendered" =>
        /\ \A i \in 1..(Len(seats) - 1) : AngleGeq(seats[i].angle, seats[i + 1].angle)
        /\ \A k \in 1..Len(seats) :
              \A p \in 1..Len(sortedParties) :
                  sortedParties[p].partyAlias # seats[k].partyAlias =>
                      LET own == {i \in 1..Len(seats) :
                                     seats[i].partyAlias = sortedParties[p].partyAlias}
                      IN  ~(/\ \E i \in own : AngleGt(seats[i].angle, seats[k].angle)
                            /\ \E j \in own : AngleGt(seats[k].angle, seats[j].angle))
        /\ \A i \in 1..(Len(seats) - 1) :
              AlignmentRank(SeatAlignment(seats[i])) <= AlignmentRank(SeatAlignment(seats[i + 1]))

\* C12: the number of (row, seat) positions generated over the rows equals the
\* number of legislators.
C12_PositionCountExact ==
    cpc = "rendered" => Len(allPositions) = Len(legislators)

\* The angle pi (seat / (seatsInRow - 1) = 0), the leftmost point.
IsLeftmost(angle) == ~IsNaN(angle) /\ angle.num = 0

\* The angle 0 (seat / (seatsInRow - 1) = 1), the rightmost point.
IsRightmost(angle) == ~IsNaN(angle) /\ angle.num = angle.den

\* C22: for every legislator count n >= 2 the drawn seats span the full
\* semicircle: among the n seats placed, at least one lies at angle pi
\* (leftmost) and at least one at angle 0 (rightmost).
C22_SeatsSpanSemicircle ==
    (cpc = "rendered" /\ Len(legislators) >= 2) =>
        /\ \E i \in 1..Len(seats) : IsLeftmost(seats[i].angle)
        /\ \E j \in 1..Len(seats) : IsRightmost(seats[j].angle)

\* The memberships of a legislator in feed order, read off the record itself.
Memberships(leg) ==
    IF leg.Diputado.Militancias.isArray THEN leg.Diputado.Militancias.Militancia
    ELSE <<leg.Diputado.Militancias.Militancia>>

\* The indices of the memberships whose closed interval contains the instant t.
Containing(leg, t) ==
    {j \in 1..Len(Memberships(leg)) :
        /\ DateGetTime(Memberships(leg)[j].FechaInicio) <= t
        /\ t <= DateGetTime(Memberships(leg)[j].FechaTermino)}

\* The first membership, in feed order, that contains the instant t.
FirstContaining(leg, t) ==
    Memberships(leg)[CHOOSE j \in Containing(leg, t) : \A k \in Containing(leg, t) : j <= k]

\* The bucket of a legislator as C16 states it: the alias of the first
\* membership that contains the instant, "IND" when there is none.
AliasAsStated(leg, t) ==
    IF Containing(leg, t) = {} THEN "IND" ELSE FirstContaining(leg, t).Partido.Alias

\* The bucket of a legislator as amended: "IND" also when the alias of that
\* membership is empty.
AliasAmended(leg, t) ==
    IF Containing(leg, t) = {} THEN "IND"
    ELSE IF FirstContaining(leg, t).Partido.Alias = "" THEN "IND"
    ELSE FirstContaining(leg, t).Partido.Alias

\* The legend counts every legislator under the bucket AliasOf gives it.
GroupingMatches(AliasOf(_, _)) ==
    /\ \A i \in 1..Len(legislators) :
          \E k \in 1..Len(sortedParties) :
              sortedParties[k].partyAlias = AliasOf(legislators[i], reads[i])
    /\ \A k \in 1..Len(sortedParties) :
          sortedParties[k].count =
              Cardinality({i \in 1..Len(legislators) :
                              AliasOf(legislators[i], reads[i]) = sortedParties[k].partyAlias})

\* getCurrentMilitancia returns null exactly when no membership contains the
\* instant it read.
NullIffNoneContains ==
    \A i \in 1..Len(legislators) :
        (getCurrentMilitancia(legislators[i].Diputado, reads[i]) = Null)
            <=> (Containing(legislators[i], reads[i]) = {})

\* C16 as stated: each legislator is counted under the alias of the first
\* membership, in feed order, whose closed interval contains the instant read
\* for it, and under the bucket "IND", named "Independiente", when no
\* membership contains it; getCurrentMilitancia returns null exactly then.
C16_CountedUnderFirstCurrentAlias ==
    cpc = "rendered" =>
        /\ GroupingMatches(AliasAsStated)
        /\ NullIffNoneContains
        /\ \A i \in 1..Len(legislators) :
              Containing(legislators[i], reads[i]) = {} =>
                  \E k \in 1..Len(sortedParties) :
                      /\ sortedParties[k].partyAlias = "IND"
                      /\ sortedParties[k].partyName = "Independiente"

\* C16 amended: as stated, except that a legislator whose first current
\* membership has an empty alias is counted under "IND" too, and that the
\* bucket is named "Independiente" when the first legislator counted in it has
\* no current membership.
C16_CountedUnderFirstCurrentAliasOrIND ==
    cpc = "rendered" =>
        /\ GroupingMatches(AliasAmended)
        /\ NullIffNoneContains
        /\ \A k \in 1..Len(sortedParties) :
              LET members == {i \in 1..Len(legislators) :
                                 AliasAmended(legislators[i], reads[i])
                                     = sortedParties[k].partyAlias}
                  first == CHOOSE i \in members : \A j \in members : i <= j
              IN  (members # {} /\ Containing(legislators[first], reads[first]) = {})
                      => sortedParties[k].partyName = "Independiente"

\* C16 witness: a render in which one legislator has two memberships that
\* contain the instant read for it and another has none.
C16_Witness ==
    /\ cpc = "rendered"
    /\ \E i \in 1..Len(legislators) :
          Cardinality(Containing(legislators[i], reads[i])) = 2
    /\ \E i \in 1..Len(legislators) :
          Containing(legislators[i], reads[i]) = {}
    /\ \E k \in 1..Len(sortedParties) : sortedParties[k].partyAlias = "IND"

\* C17: the layout never fails on an unknown party: every party group has an
\* alignment among left, center and right and a defined color; a group whose
\* alias is not in the alignment table is center, and one whose alias is not in
\* the color table has the default color #A9A9A9.
C17_UnknownPartyDefaults ==
    /\ cpc # "threw"
    /\ cpc = "rendered" =>
          \A k \in 1..Len(sortedParties) :
              /\ sortedParties[k].alignment \in {"left", "center", "right"}
              /\ sortedParties[k].color # "undefined"
              /\ sortedParties[k].partyAlias \notin DOMAIN PARTY_ALIGNMENT
                    => sortedParties[k].alignment = "center"
              /\ sortedParties[k].partyAlias \notin DOMAIN PARTY_COLORS
                    => sortedParties[k].color = "#A9A9A9"

\* C17 witness: a render whose legend holds a party that is in neither table,
\* with seats drawn in the default color.
C17_Witness ==
    /\ cpc = "rendered"
    /\ \E k \in 1..Len(sortedParties) :
          /\ sortedParties[k].partyAlias \notin DOMAIN PARTY_ALIGNMENT
          /\ sortedParties[k].partyAlias \notin DOMAIN PARTY_COLORS
          /\ \E i \in 1..Len(seats) :
                /\ seats[i].partyAlias = sortedParties[k].partyAlias
                /\ seats[i].color = "#A9A9A9"

\* C18: with zero legislators the layout does not fail and yields an empty
\* seats sequence and an empty legend.
C18_EmptyChart ==
    Len(legislators) = 0 =>
        /\ cpc # "threw"
        /\ cpc = "rendered" => (seats = <<>> /\ sortedParties = <<>>)

\* C18 witness: a render of zero legislators that ended without an error.
C18_Witness ==
    /\ cpc = "rendered"
    /\ Len(legislators) = 0
    /\ seats = <<>>

(***************************************************************************)
(* Claims about the statistics screen, checked under SpecService.          *)
(***************************************************************************)
\* The statistics the screen holds are those of the service's counters now.
StatsUpToDate == CardsShown /\ statsData = getRequestStats

\* C20: the statistics screen shows the fetch client's counters: with the
\* statistics loaded from the counters as they are, the total shown equals
\* requestCount, the successful count shown equals requestCount - failedCount,
\* and the failed card is shown, with failedCount, whenever failedCount > 0.
C20_StatsCardsShowCounters ==
    StatsUpToDate =>
        /\ ShownTotal = requestCount
        /\ ShownSuccessful = requestCount - failedCount
        /\ failedCount > 0 => (FailedCardShown /\ ShownFailed = failedCount)

(***************************************************************************)
(* Claims about the log buffer, checked under SpecLog.                     *)
(***************************************************************************)
\* C21: after any sequence of log calls the buffer holds at most 100
\* entries, and they are exactly the most recent min(total, 100) entries in
\* call order: the oldest entry is the one evicted.
C21_LogBufferKeepsMostRecent ==
    /\ Len(logs) <= MaxLogs
    /\ Len(logs) = (IF logCalls < MaxLogs THEN logCalls ELSE MaxLogs)
    /\ \A k \in 1..Len(logs) : logs[k].id = logCalls - Len(logs) + k

C21_Witness ==
    /\ logCalls > MaxLogs
    /\ Len(logs) = MaxLogs
    /\ logs[1].id = logCalls - MaxLogs + 1

\* The last n entries of arr, in order.
LastN(arr, n) == SubSeq(arr, Len(arr) - n + 1, Len(arr))

\* C27: getRecentLogs(count) returns at most count entries for every
\* count >= 0, count = 0 included, and they are the last
\* min(count, logs.length) entries of the buffer, in order.
C27_RecentLogsAtMostCount ==
    [][recent' # recent =>
          /\ Len(recent'.result) <= recent'.count
          /\ recent'.result =
                LastN(logs, IF recent'.count < Len(logs) THEN recent'.count ELSE Len(logs))]_vars

(***************************************************************************)
(* Claims about the request counters, checked under SpecService.           *)
(***************************************************************************)
\* The _makeRequest calls that have finished by throwing.
Thrown == {i \in 1..Len(requests) : requests[i] = "thrown"}

\* C25: after any interleaving of concurrent _makeRequest calls, each
\* suspended at the HTTP await and finishing with success, an HTTP error or
\* an XML parse error, 0 <= failedCount <= requestCount, requestCount is the
\* number of requests started and failedCount the number of requests that
\* have finished by throwing.
C25_CountersMatchRequests ==
    /\ 0 <= failedCount
    /\ failedCount <= requestCount
    /\ requestCount = Len(requests)
    /\ failedCount = Cardinality(Thrown)

\* Two calls overlap: the second has thrown while the first is still
\* suspended at the HTTP await.
C25_Witness ==
    /\ Len(requests) = 2
    /\ requests[1] = "http"
    /\ requests[2] = "thrown"
    /\ failedCount = 1

(***************************************************************************)
(* Claims about the year search of VotesScreen, checked under              *)
(* SpecVotesLive.                                                          *)
(***************************************************************************)
\* No loadVotes call is suspended and the list is shown.
Quiescent == vpc = "mounted" /\ fetches = <<>> /\ ~votesLoading

\* The screen shows the last submitted year and the votes fetched for it.
ShowsLastSubmitted ==
    /\ year = submitted[Len(submitted)]
    /\ votes = VotesOfYear(ParseInt(year))

\* C23: after the user submits any finite sequence of 4-character years,
\* possibly while earlier fetches are in flight and with responses arriving
\* in any order, the load effect eventually quiesces with no fetch in flight
\* and loading = false, and in that state the displayed year is the last
\* submitted year and the displayed votes are the ones fetched for it.  (A
\* run in which a request failed is left out of the statement.)
C23_SearchSettlesOnLastYear ==
    <>[](Quiescent /\ ((submitted # <<>> /\ errors = 0) => ShowsLastSubmitted))

(***************************************************************************)
(* Claims about the legislator screens, checked under SpecScreens.         *)
(***************************************************************************)
\* The entries of the rendered history that carry the ACTUAL mark.
MarkedActual == {j \in 1..Len(detail.history) : detail.history[j].isCurrent}

\* The merged entry has the membership among its originalMilitancias.
ContainsMembership(militancia, membership) ==
    \E k \in 1..Len(militancia.originalMilitancias) :
        militancia.originalMilitancias[k] = membership

\* C24: in the legislator detail history, whenever getCurrentMilitancia
\* returns a current membership, exactly one merged entry is marked ACTUAL,
\* namely the merged entry whose originalMilitancias contains that current
\* membership.
C24_ExactlyOneActual ==
    (detail # Null /\ detail.currentParty # Null) =>
        /\ Cardinality(MarkedActual) = 1
        /\ \A j \in MarkedActual :
              ContainsMembership(detail.history[j].militancia, detail.currentParty)

\* The parties the legislator has belonged to, by Id.
DistinctParties ==
    {normalizeMilitancias(Diputado.Militancias)[k].Partido.Id :
        k \in 1..Len(normalizeMilitancias(Diputado.Militancias))}

\* C26: in the legislators list the "N partidos politicos" indicator is shown
\* for a legislator only when that legislator has belonged to at least two
\* distinct parties, and N (mergedMilitancias.length) equals the number of
\* distinct parties in the legislator's membership history.
C26_IndicatorCountsParties ==
    (listItem # Null /\ listItem.shown) =>
        /\ Cardinality(DistinctParties) >= 2
        /\ listItem.count = Cardinality(DistinctParties)

====
